---- MODULE Spec2Model ----
(***************************************************************************)
(* Feedback service (src/main.py): one table "feedback", five HTTP         *)
(* operations, pydantic request validation, and two exception handlers     *)
(* that shape error responses.                                             *)
(*                                                                         *)
(* A JSON value that may be null is a sequence of length <= 1:             *)
(*   <<>> is null (Python None), <<v>> is the value v.                     *)
(* A request body is a function from the set of keys it carries to such    *)
(* values, so "absent" and "present but null" are different bodies.        *)
(* An email address is a sequence of one-character strings.                *)
(***************************************************************************)
EXTENDS Integers, Sequences, FiniteSets, TLC

VARIABLES
    store,  \* the feedback table: a function from the ids of its rows to the rows
    now,    \* the latest value func.now() has handed out
    req,    \* the last request received: [op, id, body]
    resp,   \* the answer to it: [status, body]
    sessions \* the requests in flight side by side, one database session each

vars == <<store, now, req, resp, sessions>>

\* ------------------------------------------------------------------ bounds
MaxId == 2          \* primary keys and path ids are drawn from 1..MaxId
MaxClock == 3       \* func.now() hands out 1..MaxClock

\* -------------------------------------------------------- program constants
ScoreMin == 1
ScoreMax == 5

Ids == 1..MaxId
Fields == {"score", "full_name", "email"}

Null == <<>>
Just(v) == <<v>>

\* ------------------------------------------------------------------ inputs
Plain == <<"a", "@", "b", ".", "c">>
Shouting == <<" ", "a", "@", "B", ".", "c">>
NoAt == <<"a", "b", ".", "c">>

ScoreInputs == {Null} \cup {Just(n) : n \in {ScoreMin - 1, ScoreMin, ScoreMax, ScoreMax + 1}}
NameInputs == {Just(""), Just("Al")}
EmailInputs == {Just(NoAt), Just(Plain), Just(Shouting)}

\* A key of a body: absent (<<>>) or present with one of the inputs (<<j>>).
Opt(S) == {<<>>} \cup {<<j>> : j \in S}
Part(f, o) == IF o = <<>> THEN <<>> ELSE f :> o[1]
Body(s, n, e) == Part("score", s) @@ Part("full_name", n) @@ Part("email", e)
Bodies ==
    {Body(s, n, e) : s \in Opt(ScoreInputs), n \in Opt(NameInputs), e \in Opt(EmailInputs)}

\* ------------------------------------------------- pydantic field validation
Lower(c) == CASE c = "A" -> "a" [] c = "B" -> "b" [] c = "C" -> "c" [] OTHER -> c

RECURSIVE LStrip(_)
LStrip(s) == IF s # <<>> /\ Head(s) = " " THEN LStrip(Tail(s)) ELSE s

RECURSIVE RStrip(_)
RStrip(s) == IF s # <<>> /\ s[Len(s)] = " " THEN RStrip(SubSeq(s, 1, Len(s) - 1)) ELSE s

Strip(s) == RStrip(LStrip(s))

AtPositions(s) == {i \in 1..Len(s) : s[i] = "@"}

\* The syntax check of EmailStr on a stripped address: one "@", a local part,
\* a dotted domain, no blank inside.
EmailSyntaxOk(s) ==
    /\ Cardinality(AtPositions(s)) = 1
    /\ \A i \in 1..Len(s) : s[i] # " "
    /\ LET at == CHOOSE i \in AtPositions(s) : TRUE
       IN  /\ at > 1
           /\ at < Len(s)
           /\ s[at + 1] # "."
           /\ s[Len(s)] # "."
           /\ \E i \in (at + 1)..Len(s) : s[i] = "."

\* What EmailStr hands to the model for an accepted address: blanks stripped,
\* the local part as given, the domain in lower case.
EmailStr(s) ==
    LET e == Strip(s)
        at == CHOOSE i \in AtPositions(e) : TRUE
    IN  [i \in 1..Len(e) |-> IF i > at THEN Lower(e[i]) ELSE e[i]]

\* conint with the upper limit one too high.
conint_le_above(n) == n >= ScoreMin /\ n <= ScoreMax + 1

conint(n) == n >= ScoreMin /\ n <= ScoreMax

FieldOk(f, v) ==
    CASE f = "score" -> conint(v)
      [] f = "full_name" -> TRUE
      [] f = "email" -> EmailSyntaxOk(Strip(v))

Coerce(f, v) == IF f = "email" THEN EmailStr(v) ELSE v

\* The keys of a POST body that fail FeedbackCreate: every key is required
\* and none may be null.
FeedbackCreate(body) ==
    {f \in Fields : \/ f \notin DOMAIN body
                    \/ body[f] = Null
                    \/ ~FieldOk(f, body[f][1])}

\* The keys of a PUT body that fail FeedbackUpdate: every key is Optional, so
\* an absent key and a null both pass.
FeedbackUpdate(body) ==
    {f \in DOMAIN body : body[f] # Null /\ ~FieldOk(f, body[f][1])}

\* The body as sent, not as validated.
dict_raw(body) == body

\* feedback.dict(exclude_unset=True): the keys the body carried, validated.
dict(body) ==
    [f \in DOMAIN body |-> IF body[f] = Null THEN Null ELSE Just(Coerce(f, body[f][1]))]

\* ---------------------------------------------------------------- responses
isoformat(t) == ToString(t)

FeedbackResponseData(row) ==
    [id |-> row.id, score |-> row.score, full_name |-> row.full_name,
     email |-> row.email, created_at |-> isoformat(row.created_at),
     updated_at |-> isoformat(row.updated_at)]

ResponseModel(code, message, data) ==
    [status |-> 200, body |-> [code |-> code, message |-> message, data |-> data]]

HTTPException(status_code, detail) == [status_code |-> status_code, detail |-> detail]

\* The detail alone, without the status in front.
str_detail(exc) == exc.detail

str(exc) == ToString(exc.status_code) \o ": " \o exc.detail

custom_http_exception_handler(exc) ==
    [status |-> exc.status_code,
     body |-> [code |-> exc.status_code, message |-> exc.detail, data |-> Null]]

global_exception_handler ==
    [status |-> 500,
     body |-> [code |-> 500, message |-> "Internal Server Error", data |-> Null]]

\* FastAPI's own handler for a body that fails its model; the application
\* registers none of its own.
request_validation_error(errs) ==
    [status |-> 422, body |-> [detail |-> errs]]

NotFound == HTTPException(404, "Feedback not found")
OperationalError == "OperationalError"
IntegrityError == "IntegrityError"

\* except Exception as e: raise HTTPException(status_code=500, detail=str(e))
Reraised(text) == custom_http_exception_handler(HTTPException(500, text))

\* ---------------------------------------------------------------- the table
\* A row whose updated_at has no server default.
Feedback_no_default(id, data, t) ==
    [id |-> id, score |-> data["score"][1], full_name |-> data["full_name"][1],
     email |-> data["email"][1], created_at |-> t, updated_at |-> 0]

\* Feedback(**feedback.dict()) after INSERT: the store assigns the id and
\* both timestamps.
Feedback(id, data, t) ==
    [id |-> id, score |-> data["score"][1], full_name |-> data["full_name"][1],
     email |-> data["email"][1], created_at |-> t, updated_at |-> t]

\* Every attribute set, an absent full_name to the empty string.
setattr_unset(row, data) ==
    [row EXCEPT !.score = IF "score" \in DOMAIN data THEN data["score"][1] ELSE @,
                !.full_name = IF "full_name" \in DOMAIN data THEN data["full_name"][1] ELSE "",
                !.email = IF "email" \in DOMAIN data THEN data["email"][1] ELSE @]

setattr(row, data) ==
    [row EXCEPT !.score = IF "score" \in DOMAIN data THEN data["score"][1] ELSE @,
                !.full_name = IF "full_name" \in DOMAIN data THEN data["full_name"][1] ELSE @,
                !.email = IF "email" \in DOMAIN data THEN data["email"][1] ELSE @]

\* A hook that leaves updated_at alone.
receive_before_update_noop(row, t) == row

receive_before_update(row, t) == [row EXCEPT !.updated_at = t]

\* The flush of a fetched row: the before_update hook runs for an instance on
\* which an attribute was set, and not otherwise.
Flushed(row, data, t) ==
    IF DOMAIN data = {} THEN row ELSE receive_before_update(setattr(row, data), t)

Insert(s, row) == (row.id :> row) @@ s
\* A delete that removes nothing.
Remove_nothing(s, id) == s
Remove(s, id) == [i \in DOMAIN s \ {id} |-> s[i]]

NoReq == [op |-> "none", id |-> 0, body |-> <<>>]
NoResp == [status |-> 0, body |-> <<>>]

\* The clients whose requests overlap, and a client with no request in flight.
\* db_feedback is what db.get returned to the handler.
Clients == {"c1", "c2"}
NoSession ==
    [op |-> "none", id |-> 0, body |-> <<>>, pc |-> "idle", db_feedback |-> Null,
     resp |-> NoResp]

Init ==
    /\ store = <<>>
    /\ now = 0
    /\ req = NoReq
    /\ resp = NoResp
    /\ sessions = [c \in Clients |-> NoSession]

\* ---------------------------------------------------------------- handlers
\* fault names the await at which the store fails in this request, if any.
\* The client is sequential: it sends a request once it holds the answer to
\* the one before (Idle).

create_feedback(body, fault) ==
    /\ req' = [op |-> "create", id |-> 0, body |-> body]
    /\ IF FeedbackCreate(body) # {}
       THEN /\ fault = "none"
            /\ resp' = request_validation_error(FeedbackCreate(body))
            /\ UNCHANGED <<store, now>>
       ELSE \/ /\ fault = "commit"
               /\ resp' = Reraised(OperationalError)
               /\ UNCHANGED <<store, now>>
            \/ /\ fault = "rollback"
               /\ resp' = global_exception_handler
               /\ UNCHANGED <<store, now>>
            \/ /\ fault \in {"none", "refresh"}
               /\ now < MaxClock
               /\ \E id \in Ids \ DOMAIN store :
                     LET db_feedback == Feedback(id, dict(body), now + 1)
                     IN  /\ store' = Insert(store, db_feedback)
                         /\ now' = now + 1
                         /\ resp' = IF fault = "refresh"
                                    THEN Reraised(OperationalError)
                                    ELSE ResponseModel(200, "Feedback submitted successfully",
                                                       Just(FeedbackResponseData(db_feedback)))

get_feedback(feedback_id, fault) ==
    /\ req' = [op |-> "get", id |-> feedback_id, body |-> <<>>]
    /\ resp' = IF fault = "fetch" THEN Reraised(OperationalError)
               ELSE IF feedback_id \notin DOMAIN store THEN Reraised(str(NotFound))
               ELSE ResponseModel(200, "Feedback retrieved successfully",
                                  Just(FeedbackResponseData(store[feedback_id])))
    /\ UNCHANGED <<store, now>>

get_all_feedback(fault) ==
    /\ req' = [op |-> "list", id |-> 0, body |-> <<>>]
    /\ resp' = IF fault = "fetch" THEN Reraised(OperationalError)
               ELSE ResponseModel(200, "All feedback retrieved successfully",
                                  Just({FeedbackResponseData(store[i]) : i \in DOMAIN store}))
    /\ UNCHANGED <<store, now>>

delete_feedback(feedback_id, fault) ==
    /\ req' = [op |-> "delete", id |-> feedback_id, body |-> <<>>]
    /\ UNCHANGED now
    /\ IF fault = "fetch"
       THEN resp' = Reraised(OperationalError) /\ UNCHANGED store
       ELSE IF feedback_id \notin DOMAIN store
       THEN resp' = Reraised(str(NotFound)) /\ UNCHANGED store
       ELSE IF fault = "commit"
       THEN resp' = Reraised(OperationalError) /\ UNCHANGED store
       ELSE /\ store' = Remove(store, feedback_id)
            /\ resp' = ResponseModel(200, "Feedback deleted successfully", Null)

edit_feedback(feedback_id, body, fault) ==
    /\ req' = [op |-> "update", id |-> feedback_id, body |-> body]
    /\ IF FeedbackUpdate(body) # {}
       THEN /\ fault = "none"
            /\ resp' = request_validation_error(FeedbackUpdate(body))
            /\ UNCHANGED <<store, now>>
       ELSE IF fault = "fetch"
       THEN resp' = Reraised(OperationalError) /\ UNCHANGED <<store, now>>
       ELSE IF feedback_id \notin DOMAIN store
       THEN resp' = Reraised(str(NotFound)) /\ UNCHANGED <<store, now>>
       ELSE IF fault = "commit"
       THEN resp' = Reraised(OperationalError) /\ UNCHANGED <<store, now>>
       ELSE IF \E f \in DOMAIN body : body[f] = Null
       THEN resp' = Reraised(IntegrityError) /\ UNCHANGED <<store, now>>
       ELSE LET update_data == dict(body)
                db_feedback == Flushed(store[feedback_id], update_data, now + 1)
            IN  /\ DOMAIN update_data # {} => now < MaxClock
                /\ store' = [store EXCEPT ![feedback_id] = db_feedback]
                /\ now' = IF DOMAIN update_data = {} THEN now ELSE now + 1
                /\ resp' = IF fault = "refresh"
                           THEN Reraised(OperationalError)
                           ELSE ResponseModel(200, "Feedback updated successfully",
                                              Just(FeedbackResponseData(db_feedback)))

\* The client takes the answer; the next request follows it.
Deliver ==
    /\ resp # NoResp
    /\ req' = NoReq
    /\ resp' = NoResp
    /\ UNCHANGED <<store, now, sessions>>

\* The awaits of each handler at which the store can fail.
CreateFaults == {"none", "commit", "refresh", "rollback"}
ReadFaults == {"none", "fetch"}
DeleteFaults == {"none", "fetch", "commit"}
EditFaults == {"none", "fetch", "commit", "refresh"}

Idle == resp = NoResp

Post == Idle /\ UNCHANGED sessions /\ \E body \in Bodies, fault \in CreateFaults : create_feedback(body, fault)
Get == Idle /\ UNCHANGED sessions /\ \E id \in Ids, fault \in ReadFaults : get_feedback(id, fault)
List == Idle /\ UNCHANGED sessions /\ \E fault \in ReadFaults : get_all_feedback(fault)
Delete == Idle /\ UNCHANGED sessions /\ \E id \in Ids, fault \in DeleteFaults : delete_feedback(id, fault)
Put == Idle /\ UNCHANGED sessions /\ \E id \in Ids, body \in Bodies, fault \in EditFaults : edit_feedback(id, body, fault)

Next == Post \/ Get \/ List \/ Delete \/ Put \/ Deliver

Spec == Init /\ [][Next]_vars

\* ------------------------------------------------- requests side by side
\* Each PUT and DELETE of a client is two steps, with the steps of other
\* requests free to come between them: the fetch (the session is opened and
\* db.get runs) and the commit (the rest of the handler, flush and COMMIT in
\* one). No step takes a lock. Bodies here have passed validation and the
\* store does not fail. The sequential client adds rows meanwhile.
ConcPostBodies == {Body(<<Just(ScoreMin)>>, <<Just("Al")>>, <<Just(Plain)>>)}
ConcPutBodies == {Body(s, <<>>, <<>>) : s \in Opt({Null, Just(ScoreMax)})}

StaleDataError == "StaleDataError"
InvalidRequestError == "InvalidRequestError"

\* The row as the UPDATE leaves it: a column is in the SET list when its
\* new value differs from the value fetched, updated_at always.
NetChange(row, fetched, data, t) ==
    receive_before_update(
        [row EXCEPT
            !.score = IF "score" \in DOMAIN data /\ data["score"][1] # fetched.score
                      THEN data["score"][1] ELSE @,
            !.full_name = IF "full_name" \in DOMAIN data /\ data["full_name"][1] # fetched.full_name
                          THEN data["full_name"][1] ELSE @,
            !.email = IF "email" \in DOMAIN data /\ data["email"][1] # fetched.email
                      THEN data["email"][1] ELSE @],
        t)

\* An UPDATE that writes the fetched object back when its row is gone.
flush_upsert(s, id, fetched, data, t) ==
    IF id \in DOMAIN s
    THEN [s EXCEPT ![id] = NetChange(@, fetched, data, t)]
    ELSE Insert(s, NetChange(fetched, fetched, data, t))

\* The table after UPDATE feedback SET ... WHERE id = :id.
flush_update(s, id, fetched, data, t) ==
    IF id \in DOMAIN s THEN [s EXCEPT ![id] = NetChange(@, fetched, data, t)] ELSE s

Answer(c, rs) == sessions' = [sessions EXCEPT ![c].pc = "done", ![c].resp = rs]

Fetch(c, op, feedback_id, body) ==
    /\ sessions[c].pc = "idle"
    /\ UNCHANGED <<store, now, req, resp>>
    /\ IF feedback_id \notin DOMAIN store
       THEN sessions' = [sessions EXCEPT ![c] =
                [op |-> op, id |-> feedback_id, body |-> body, pc |-> "done",
                 db_feedback |-> Null, resp |-> Reraised(str(NotFound))]]
       ELSE sessions' = [sessions EXCEPT ![c] =
                [op |-> op, id |-> feedback_id, body |-> body, pc |-> "fetched",
                 db_feedback |-> Just(store[feedback_id]), resp |-> NoResp]]

edit_feedback_fetch(c, feedback_id, body) == Fetch(c, "update", feedback_id, body)

delete_feedback_fetch(c, feedback_id) == Fetch(c, "delete", feedback_id, <<>>)

edit_feedback_commit(c) ==
    LET s == sessions[c]
        update_data == dict(s.body)
        flushed == flush_update(store, s.id, s.db_feedback[1], update_data, now + 1)
    IN  /\ s.op = "update"
        /\ s.pc = "fetched"
        /\ UNCHANGED <<req, resp>>
        /\ IF DOMAIN update_data = {}
           THEN /\ UNCHANGED <<store, now>>
                /\ Answer(c, IF s.id \in DOMAIN store
                             THEN ResponseModel(200, "Feedback updated successfully",
                                                Just(FeedbackResponseData(store[s.id])))
                             ELSE Reraised(InvalidRequestError))
           ELSE IF \E f \in DOMAIN update_data : update_data[f] = Null
           THEN /\ UNCHANGED <<store, now>>
                /\ Answer(c, Reraised(IF s.id \in DOMAIN store THEN IntegrityError
                                       ELSE StaleDataError))
           ELSE IF s.id \notin DOMAIN flushed
           THEN UNCHANGED <<store, now>> /\ Answer(c, Reraised(StaleDataError))
           ELSE /\ now < MaxClock
                /\ store' = flushed
                /\ now' = now + 1
                /\ Answer(c, ResponseModel(200, "Feedback updated successfully",
                                           Just(FeedbackResponseData(flushed[s.id]))))

\* DELETE ... WHERE id = :id; a row already gone is a warning, not an error.
delete_feedback_commit(c) ==
    /\ sessions[c].op = "delete"
    /\ sessions[c].pc = "fetched"
    /\ UNCHANGED <<now, req, resp>>
    /\ store' = IF sessions[c].id \in DOMAIN store THEN Remove(store, sessions[c].id) ELSE store
    /\ Answer(c, ResponseModel(200, "Feedback deleted successfully", Null))

\* The answer is sent and the session closed.
get_db_session(c) ==
    /\ sessions[c].pc = "done"
    /\ sessions' = [sessions EXCEPT ![c] = NoSession]
    /\ UNCHANGED <<store, now, req, resp>>

PostAlongside ==
    Idle /\ UNCHANGED sessions /\ \E body \in ConcPostBodies : create_feedback(body, "none")
PutFetch == \E c \in Clients, id \in Ids, body \in ConcPutBodies : edit_feedback_fetch(c, id, body)
PutCommit == \E c \in Clients : edit_feedback_commit(c)
DeleteFetch == \E c \in Clients, id \in Ids : delete_feedback_fetch(c, id)
DeleteCommit == \E c \in Clients : delete_feedback_commit(c)
Close == \E c \in Clients : get_db_session(c)

NextConcurrent ==
    PostAlongside \/ Deliver \/ PutFetch \/ PutCommit \/ DeleteFetch \/ DeleteCommit \/ Close

SpecConcurrent == Init /\ [][NextConcurrent]_vars

\* ------------------------------------------------------------------ claims
InRange(n) == n >= ScoreMin /\ n <= ScoreMax
Mutating(rq) == rq.op \in {"create", "update", "delete"}
Ok(rq, rs, op) == rq.op = op /\ rs.status = 200
Carries(rq, f) == rq.op \in {"create", "update"} /\ f \in DOMAIN rq.body /\ rq.body[f] # Null
SameRows(s0, s1, ids) == \A j \in ids : j \in DOMAIN s0 /\ j \in DOMAIN s1 /\ s1[j] = s0[j]
NotFoundAnswer ==
    [status |-> 500,
     body |-> [code |-> 500, message |-> "404: Feedback not found", data |-> Null]]
StoreFailed(rs) == rs.status = 500 /\ rs.body.message = OperationalError

\* C1: every stored row has a score in [1,5], and a create or update whose
\* body carries a score outside [1,5] is answered with a rejection and leaves
\* the table exactly as it was.
C1_ScoreInRange ==
    [][/\ \A i \in DOMAIN store' : InRange(store'[i].score)
       /\ (Carries(req', "score") /\ ~InRange(req'.body["score"][1]))
             => (resp'.status = 422 /\ store' = store)]_vars

C1_Witness ==
    /\ req.op = "update"
    /\ req.id \in DOMAIN store
    /\ Carries(req, "score")
    /\ req.body["score"][1] = ScoreMax + 1
    /\ resp.status = 422

\* C2: a get, update or delete of an id that has no row, once the body has
\* passed validation and the store has answered the fetch, is answered with
\* status 500, code 500, message "404: Feedback not found" and data null, and
\* the table is unchanged.
C2_NotFound ==
    [][(/\ req'.op \in {"get", "update", "delete"}
        /\ req'.id \notin DOMAIN store
        /\ resp'.status # 422
        /\ ~StoreFailed(resp'))
          => (resp' = NotFoundAnswer /\ store' = store)]_vars

C2_Witness ==
    /\ req.op = "update"
    /\ req.id \notin DOMAIN store
    /\ DOMAIN store # {}
    /\ DOMAIN req.body # {}
    /\ resp = NotFoundAnswer

\* The frame of a successful update: want(f, v) is the value a carried key f
\* with supplied value v must leave in the row.
UpdateFrame(rq, s0, s1, want(_, _)) ==
    /\ rq.id \in DOMAIN s0
    /\ DOMAIN s1 = DOMAIN s0
    /\ SameRows(s0, s1, DOMAIN s0 \ {rq.id})
    /\ s1[rq.id].id = s0[rq.id].id
    /\ s1[rq.id].created_at = s0[rq.id].created_at
    /\ \A f \in Fields :
          s1[rq.id][f] = IF f \in DOMAIN rq.body THEN want(f, rq.body[f][1]) ELSE s0[rq.id][f]

Supplied(f, v) == v
Validated(f, v) == IF f = "email" THEN EmailStr(v) ELSE v

\* C3 (as stated): a successful update leaves in every carried field the
\* value supplied, and changes nothing else.
C3_Original ==
    [][Ok(req', resp', "update") => UpdateFrame(req', store, store', Supplied)]_vars

\* C3 (amended): a successful update leaves in a carried score or full_name
\* the value supplied and in a carried email the supplied address with its
\* surrounding blanks stripped and its domain in lower case; every field the
\* body does not carry, the id, created_at and every other row are unchanged.
C3_UpdateFrame ==
    [][Ok(req', resp', "update") => UpdateFrame(req', store, store', Validated)]_vars

C3_Witness ==
    /\ Ok(req, resp, "update")
    /\ DOMAIN req.body = {"score", "email"}
    /\ req.body["email"][1] = Shouting
    /\ store[req.id].email = Plain
    /\ Cardinality(DOMAIN store) = 2

Data(rs) == rs.body.data[1]

\* C4 (as stated): the record a create returns carries the submitted score,
\* full_name and email.
C4_Original ==
    Ok(req, resp, "create")
        => /\ Data(resp).score = req.body["score"][1]
           /\ Data(resp).full_name = req.body["full_name"][1]
           /\ Data(resp).email = req.body["email"][1]

\* C4 (amended): the record a create returns carries the submitted score and
\* full_name and the submitted email with blanks stripped and its domain in
\* lower case, and is the row now stored under a fresh id; a get of an id
\* returns the row stored under it and changes nothing; and a row changes
\* only by an update or a delete of its id. So a get after a create, with no
\* update or delete of that id in between, returns the record create returned.
C4_RoundTrip ==
    [][/\ Ok(req', resp', "create")
            => /\ Data(resp').score = req'.body["score"][1]
               /\ Data(resp').full_name = req'.body["full_name"][1]
               /\ Data(resp').email = EmailStr(req'.body["email"][1])
               /\ Data(resp').id \notin DOMAIN store
               /\ Data(resp').id \in DOMAIN store'
               /\ Data(resp') = FeedbackResponseData(store'[Data(resp').id])
       /\ Ok(req', resp', "get")
            => /\ req'.id \in DOMAIN store
               /\ Data(resp') = FeedbackResponseData(store[req'.id])
               /\ store' = store
       /\ \A i \in DOMAIN store :
            ~(req'.op \in {"update", "delete"} /\ req'.id = i)
                => SameRows(store, store', {i})]_vars

C4_Witness ==
    /\ Ok(req, resp, "get")
    /\ Data(resp).id = req.id
    /\ Data(resp).email = Plain
    /\ Data(resp).updated_at = Data(resp).created_at
    /\ Cardinality(DOMAIN store) = 2

\* C5: a successful delete removes the row of its id and leaves every other
\* row as it was; an id that has no row gets one only by a create; and a get,
\* update or delete of an id that has no row never answers 200 (it answers
\* not-found once its body is valid and the store has answered the fetch).
C5_DeleteIsFinal ==
    [][/\ Ok(req', resp', "delete")
            => /\ req'.id \in DOMAIN store
               /\ DOMAIN store' = DOMAIN store \ {req'.id}
               /\ SameRows(store, store', DOMAIN store')
       /\ \A i \in DOMAIN store' \ DOMAIN store : req'.op = "create"
       /\ (req'.op \in {"get", "update", "delete"} /\ req'.id \notin DOMAIN store)
            => /\ resp'.status # 200
               /\ req'.id \notin DOMAIN store'
               /\ (resp'.status = 422 \/ StoreFailed(resp') \/ resp' = NotFoundAnswer)]_vars

C5_Witness ==
    /\ Ok(req, resp, "delete")
    /\ req.id \notin DOMAIN store
    /\ DOMAIN store # {}

\* C6: every answer has the keys code, message and data, code is the HTTP
\* status, and data is null for a delete and for every error.
C6_Envelope ==
    resp.status # 0
        => /\ DOMAIN resp.body = {"code", "message", "data"}
           /\ resp.body.code = resp.status
           /\ (req.op = "delete" \/ resp.status # 200) => resp.body.data = Null

\* C7: a create or update whose body carries an empty full_name is rejected,
\* and no stored row has an empty full_name.
C7_NoEmptyName ==
    /\ \A i \in DOMAIN store : store[i].full_name # ""
    /\ (Carries(req, "full_name") /\ req.body["full_name"][1] = "") => resp.status = 422

\* C8 (as stated): every successful update leaves the row's updated_at
\* strictly greater than it was.
C8_Original ==
    [][Ok(req', resp', "update")
          => store'[req'.id].updated_at > store[req'.id].updated_at]_vars

\* C8 (amended): every successful update whose body carries at least one
\* key, a single key included, sets the row's updated_at to the current time,
\* strictly greater than it was; a successful update with an empty body
\* leaves the row, updated_at included, as it was.
C8_UpdatedAtAdvances ==
    [][Ok(req', resp', "update")
          => IF DOMAIN req'.body # {}
             THEN /\ now' > now
                  /\ store'[req'.id].updated_at = now'
                  /\ store'[req'.id].updated_at > store[req'.id].updated_at
                  /\ Data(resp').updated_at = isoformat(now')
             ELSE store' = store /\ now' = now]_vars

C8_Witness ==
    /\ Ok(req, resp, "update")
    /\ DOMAIN req.body = {"full_name"}
    /\ store[req.id].updated_at = now
    /\ store[req.id].updated_at > store[req.id].created_at

\* C9: every stored row has created_at <= updated_at; a new row has both
\* equal to the time of its insertion; created_at of a row never changes; and
\* updated_at changes only to the current time of a later request.
C9_Timestamps ==
    [][\A i \in DOMAIN store' :
          /\ store'[i].created_at <= store'[i].updated_at
          /\ i \notin DOMAIN store
                => /\ now' > now
                   /\ store'[i].created_at = now'
                   /\ store'[i].updated_at = now'
          /\ i \in DOMAIN store
                => /\ store'[i].created_at = store[i].created_at
                   /\ \/ store'[i].updated_at = store[i].updated_at
                      \/ store'[i].updated_at = now' /\ now' > now]_vars

C9_Witness ==
    \E i, j \in DOMAIN store :
        /\ store[i].created_at < store[i].updated_at
        /\ store[j].created_at = store[j].updated_at
        /\ store[j].created_at > store[i].created_at

\* C10: a create, update or delete that answers with an error leaves the
\* table holding exactly the rows it held before the request.
C10_FailureLeavesStore ==
    [][(Mutating(req') /\ resp'.status # 200) => store' = store]_vars

\* The part of C10 that holds: an error at or before the commit, the update
\* that sets a field to null included, leaves the table as it was.
C10_FailedCommitLeavesStore ==
    [][(/\ Mutating(req')
        /\ resp'.status # 200
        /\ ~(req'.op \in {"create", "update"} /\ StoreFailed(resp')))
          => store' = store]_vars

\* A client whose update or delete takes its commit step in this transition.
Commits(c, op) ==
    sessions[c].op = op /\ sessions[c].pc = "fetched" /\ sessions'[c].pc = "done"

\* The row the client fetched is not the row now stored under its id: a
\* delete of it has committed since the fetch.
DeletedSinceFetch(c) ==
    \/ sessions[c].id \notin DOMAIN store
    \/ store[sessions[c].id].created_at # sessions[c].db_feedback[1].created_at

\* C11 (as stated): an update that fetched id before a concurrent delete of
\* id committed never ends with the row present, with a 200 for the update or
\* with another record changed, wherever its own commit falls.
C11_Original ==
    [][\A u \in Clients :
        /\ (Commits(u, "update") /\ DeletedSinceFetch(u))
              => /\ sessions[u].id \notin DOMAIN store'
                 /\ sessions'[u].resp.status # 200
                 /\ SameRows(store, store', DOMAIN store \ {sessions[u].id})
        /\ \A d \in Clients :
              (/\ Commits(d, "delete")
               /\ sessions[u].op = "update"
               /\ sessions[u].pc = "done"
               /\ sessions[u].id = sessions[d].id
               /\ sessions[u].db_feedback # Null
               /\ sessions[u].db_feedback[1].created_at = sessions[d].db_feedback[1].created_at
               /\ sessions[d].id \in DOMAIN store
               /\ sessions[d].db_feedback[1].updated_at < store[sessions[d].id].updated_at)
                  => sessions[u].resp.status # 200]_vars

\* C11: an update that fetched id and takes its commit step after a
\* concurrent delete of id has committed, the id not having been assigned
\* again, does not re-create the row: the table is left exactly as it was,
\* so the record stays absent and no other record changes, and the update
\* does not answer 200.
C11_StaleUpdate ==
    [][\A u \in Clients :
        (/\ Commits(u, "update")
         /\ sessions[u].db_feedback # Null
         /\ sessions[u].id \notin DOMAIN store)
            => /\ store' = store
               /\ sessions[u].id \notin DOMAIN store'
               /\ sessions'[u].resp.status # 200]_vars

\* Both requests fetched the same row, the delete has answered 200, the
\* update has failed on the missing row, and another record is stored.
C11_Witness ==
    \E u, d \in Clients :
        /\ sessions[u].op = "update" /\ sessions[u].pc = "done"
        /\ sessions[d].op = "delete" /\ sessions[d].pc = "done"
        /\ sessions[u].id = sessions[d].id
        /\ sessions[u].db_feedback # Null
        /\ sessions[u].db_feedback = sessions[d].db_feedback
        /\ sessions[d].resp.status = 200
        /\ sessions[u].resp = Reraised(StaleDataError)
        /\ sessions[u].id \notin DOMAIN store
        /\ DOMAIN store # {}

====
